---- MODULE Spec2Model ----
(***************************************************************************)
(* A model of the traders file server (src/server.py): the date-bucketed    *)
(* storage under BASE_FOLDER, the upload, Retrieve-today (/api/download),   *)
(* list-files and explicit-file-fetch (/api/file/<path>) handlers, and the  *)
(* API-key guard.                                                           *)
(*                                                                         *)
(* Strings the handlers take apart (file names, URL paths) are sequences of *)
(* tokens.  A token is one of the special characters "/", " ", ".", "_",    *)
(* "$" (an ASCII character outside [A-Za-z0-9_.-]), "€" (a non-ASCII        *)
(* character), or a word: a run of characters of [A-Za-z0-9-].             *)
(* A file-system path is a sequence of names, each name a token sequence.   *)
(***************************************************************************)
EXTENDS Integers, Sequences, FiniteSets, TLC

\* ------------------------------------------------------------------ bounds
MaxReq == 2
MaxClock == 1
MaxDay == 2

Procs == {1, 2}

\* ------------------------------------------------------- token sequences
Specials == {"/", " ", ".", "_", "$", "€"}

IsWord(t) == t \notin Specials

RECURSIVE FilterOut(_, _)
FilterOut(s, bad) ==
    IF s = <<>> THEN <<>>
    ELSE IF Head(s) \in bad THEN FilterOut(Tail(s), bad)
         ELSE <<Head(s)>> \o FilterOut(Tail(s), bad)

RECURSIVE Replace(_, _, _)
Replace(s, old, new) ==
    IF s = <<>> THEN <<>>
    ELSE <<IF Head(s) = old THEN new ELSE Head(s)>> \o Replace(Tail(s), old, new)

RECURSIVE LStrip(_, _)
LStrip(s, chars) ==
    IF s # <<>> /\ Head(s) \in chars THEN LStrip(Tail(s), chars) ELSE s

RECURSIVE RStrip(_, _)
RStrip(s, chars) ==
    IF s # <<>> /\ s[Len(s)] \in chars THEN RStrip(SubSeq(s, 1, Len(s) - 1), chars) ELSE s

Strip(s, chars) == RStrip(LStrip(s, chars), chars)

\* "_".join(s.split()): runs of whitespace become one "_", none at the ends.
RECURSIVE JoinRuns(_)
JoinRuns(s) ==
    IF s = <<>> THEN <<>>
    ELSE IF Head(s) = " "
         THEN (IF LStrip(s, {" "}) = <<>> THEN <<>>
               ELSE <<"_">> \o JoinRuns(LStrip(s, {" "})))
         ELSE <<Head(s)>> \o JoinRuns(Tail(s))

SplitJoin(s) == JoinRuns(LStrip(s, {" "}))

\* Adjacent words are one run of characters: keep token sequences canonical.
RECURSIVE MergeWords(_)
MergeWords(s) ==
    IF Len(s) < 2 THEN s
    ELSE IF IsWord(s[1]) /\ IsWord(s[2])
         THEN MergeWords(<<s[1] \o s[2]>> \o SubSeq(s, 3, Len(s)))
         ELSE <<Head(s)>> \o MergeWords(Tail(s))

\* (separators kept and the ends not stripped)
secure_filename_keepSep(filename) ==
    MergeWords(FilterOut(filename, {"$", " ", "€"}))

\* werkzeug.utils.secure_filename on a POSIX host (os.sep = "/", no altsep,
\* no Windows device-name check): drop non-ASCII, separators to spaces,
\* whitespace runs to "_", drop characters outside [A-Za-z0-9_.-], strip
\* "." and "_" from both ends.  The result may be empty.
secure_filename(filename) ==
    MergeWords(Strip(FilterOut(SplitJoin(Replace(FilterOut(filename, {"€"}), "/", " ")),
                               {"$", " ", "/", "€"}),
                     {".", "_"}))

\* str.split('/'): the segments between separators, empty ones included.
RECURSIVE SplitSlash(_, _)
SplitSlash(s, cur) ==
    IF s = <<>> THEN <<cur>>
    ELSE IF Head(s) = "/" THEN <<cur>> \o SplitSlash(Tail(s), <<>>)
         ELSE SplitSlash(Tail(s), cur \o <<Head(s)>>)

Split(s) == SplitSlash(s, <<>>)

RECURSIVE MapSecure(_)
MapSecure(parts) ==
    IF parts = <<>> THEN <<>>
    ELSE <<secure_filename(Head(parts))>> \o MapSecure(Tail(parts))

\* '/'.join(parts)
RECURSIVE JoinSlash(_)
JoinSlash(parts) ==
    IF parts = <<>> THEN <<>>
    ELSE IF Len(parts) = 1 THEN Head(parts)
         ELSE Head(parts) \o <<"/">> \o JoinSlash(Tail(parts))

\* ------------------------------------------------------------------ paths
BASE_FOLDER == << <<"tools">>, <<"trader", "_", "sender">>, <<"data">> >>

DotDot == <<".", ".">>

\* The components of a path string as pathlib parses it: empty and "."
\* components vanish.
PathParts(str) == FilterOut(Split(str), {<<>>, <<".">>})

\* pathlib's base / str: an absolute str replaces base.
JoinPath(base, str) ==
    IF str # <<>> /\ Head(str) = "/" THEN PathParts(str) ELSE base \o PathParts(str)

\* Path.resolve() on a file system without symbolic links: ".." steps up.
RECURSIVE ResolveFrom(_, _)
ResolveFrom(done, rest) ==
    IF rest = <<>> THEN done
    ELSE IF Head(rest) = DotDot
         THEN ResolveFrom(IF done = <<>> THEN <<>> ELSE SubSeq(done, 1, Len(done) - 1),
                          Tail(rest))
         ELSE ResolveFrom(done \o <<Head(rest)>>, Tail(rest))

Resolve(p) == ResolveFrom(<<>>, p)

\* p.relative_to(base) succeeds: base is a prefix of p.
IsRelativeTo(p, base) ==
    Len(p) >= Len(base) /\ SubSeq(p, 1, Len(base)) = base

Parent(p) == SubSeq(p, 1, Len(p) - 1)
Name(p) == p[Len(p)]

\* ------------------------------------------------------------ file system
\* The file system is a function from the absolute paths that exist to
\* their nodes.  ino identifies the inode: 0 for files present at startup,
\* otherwise the id of the request whose open() created the file.
DirNode == [kind |-> "dir", content |-> <<>>, mtime |-> 0, ino |-> 0]
FileNode(c, t, i) == [kind |-> "file", content |-> c, mtime |-> t, ino |-> i]

Exists(f, p) == p \in DOMAIN f
IsDir(f, p) == p \in DOMAIN f /\ f[p].kind = "dir"
IsFile(f, p) == p \in DOMAIN f /\ f[p].kind = "file"

Put(f, p, node) == [q \in DOMAIN f \cup {p} |-> IF q = p THEN node ELSE f[q]]
Unlink(f, p) == [q \in DOMAIN f \ {p} |-> f[q]]

\* (the directory walked recursively)
IterDir_recursive(f, d) ==
    {p \in DOMAIN f : Len(p) > Len(d) /\ SubSeq(p, 1, Len(d)) = d}

\* directory.iterdir()
IterDir(f, d) == {p \in DOMAIN f : Len(p) = Len(d) + 1 /\ Parent(p) = d}

\* name.startswith('.')
StartsWithDot(name) == name # <<>> /\ Head(name) = "."

\* BASE_FOLDER.glob('**/*')
GlobAll(f, base) == {p \in DOMAIN f : Len(p) > Len(base) /\ IsRelativeTo(p, base)}

\* datetime.now().strftime('%m-%d-%y') on day d of the run
DayKeys == <<"11-01-26", "11-02-26", "11-03-26", "11-04-26">>
DateKey(d) == <<DayKeys[d]>>

\* (every chunk written at the start of the file)
WriteAt_atStart(content, off, chunk) ==
    [i \in 1..(IF Len(content) > 1 THEN Len(content) ELSE 1) |->
        IF i = 1 THEN chunk ELSE content[i]]

\* A write of one chunk at chunk offset off through an open handle: bytes
\* before the offset that the file does not have read as 0 (a hole).
WriteAt(content, off, chunk) ==
    [i \in 1..(IF Len(content) > off + 1 THEN Len(content) ELSE off + 1) |->
        IF i = off + 1 THEN chunk
        ELSE IF i <= Len(content) THEN content[i] ELSE 0]

\* ------------------------------------------------------------------ inputs
NoKey == "<absent>"
Secret == "s3cret"
Contents == {<<1>>, <<2, 3>>}
SecretContent == <<9>>

ReportCsv == <<"report", ".", "csv">>
UploadNames ==
    { ReportCsv,
      <<".", ".", "/">> \o ReportCsv,
      <<"/", "b">>,
      <<".", ".", "/">> }

EtcPasswd == << <<"etc">>, <<"passwd">> >>

FetchPaths(d) ==
    { DateKey(d) \o <<"/">> \o ReportCsv,
      DateKey(d) \o <<"/", ".", ".", "/">> \o ReportCsv,
      DateKey(d) \o <<"/", "b">>,
      <<".", ".", "/", "etc", "/", "passwd">>,
      <<".", ".">> }

KeyPairs ==
    { <<NoKey, NoKey>>, <<Secret, NoKey>>, <<NoKey, Secret>>,
      <<"wrong", NoKey>>, <<NoKey, "wrong">>, <<"", Secret>>, <<"", "">>,
      <<"wrong", Secret>> }

\* The storage at startup: BASE_FOLDER exists (ensure_directory_exists at
\* import) with its ancestors, a file outside it, and either nothing else or a first-day bucket
\* that earlier requests left with two files, and that also holds a hidden
\* file and a subdirectory with one file.
BareFS ==
    [q \in {SubSeq(BASE_FOLDER, 1, n) : n \in 0..Len(BASE_FOLDER)} |-> DirNode]
        @@ (<< <<"etc">> >> :> DirNode)
        @@ (EtcPasswd :> FileNode(SecretContent, 0, 0))

SeededFS ==
    LET b == BASE_FOLDER \o <<DateKey(1)>> IN
    BareFS @@ (b :> DirNode)
           @@ ((b \o <<ReportCsv>>) :> FileNode(<<1>>, 0, 0))
           @@ ((b \o << <<"b">> >>) :> FileNode(<<2, 3>>, 0, 0))
           @@ ((b \o << <<".", "keep">> >>) :> FileNode(<<1>>, 0, 0))
           @@ ((b \o << <<"sub">> >>) :> DirNode)
           @@ ((b \o << <<"sub">>, <<"a">> >>) :> FileNode(<<2, 3>>, 0, 0))

\* ------------------------------------------------------------------- state
VARIABLES
    API_KEY,    \* the configured secret, fixed at startup
    fs,         \* the file system
    clock,      \* the time of the latest write the file system stamped
    day,        \* the latest local date a request read (a day number)
    nreq,       \* requests started so far
    pc,         \* per worker: the handler step it is at
    req,        \* per worker: the request it handles
    loc,        \* per worker: the handler's local variables
    log,        \* the finished requests with their responses, in order
    client      \* the companion downloader: its position and what it has saved

vars == <<API_KEY, fs, clock, day, nreq, pc, req, loc, log, client>>

NoReq ==
    [op |-> "none", id |-> 0, hasFile |-> FALSE, filename |-> <<>>, content |-> <<>>,
     clear_existing |-> FALSE, filepath |-> <<>>, header |-> NoKey, query |-> NoKey,
     type |-> "none",
     \* for the properties: the local date and the storage when it arrived
     date |-> 0, before |-> <<>>]

NoLoc ==
    [timestamp |-> <<>>, items |-> {}, item |-> <<>>, files_deleted |-> 0,
     file_path |-> <<>>, offset |-> 0, all_files |-> {}, sorted |-> <<>>,
     keys |-> <<>>, ino |-> 0, cat |-> "none", downloads |-> <<>>]

NoResp ==
    [status |-> 0, outcome |-> "none", filename |-> <<>>, directory |-> <<>>,
     size_bytes |-> 0, files_deleted |-> 0, body |-> <<>>, count |-> 0,
     files |-> <<>>, downloads |-> <<>>, uploads |-> <<>>,
     \* for the properties: the file whose content is the body
     path |-> <<>>]

\* The downloader before its run: nothing requested, nothing saved.
NoClient ==
    [pc |-> "idle", id |-> 0, url |-> <<>>, filename |-> <<>>, followed |-> FALSE,
     saved |-> <<>>, result |-> "none"]

Init ==
    /\ client = NoClient
    /\ API_KEY \in {"", Secret}
    /\ fs \in {BareFS, SeededFS}
    /\ clock = 0
    /\ day = 1
    /\ nreq = 0
    /\ pc = [p \in Procs |-> "idle"]
    /\ req = [p \in Procs |-> NoReq]
    /\ loc = [p \in Procs |-> NoLoc]
    /\ log = <<>>

\* A worker is free when it is handling no request.
Free(p) == pc[p] \in {"idle", "done"}

\* No request is being handled: the next one runs after all earlier ones.
Quiet == \A p \in Procs : Free(p)

\* The first free worker takes the next request.
NewReq(r) == [r EXCEPT !.id = nreq + 1, !.before = fs]

Begin(p, r) ==
    /\ Free(p)
    /\ \A q \in Procs : q < p => ~Free(q)
    /\ nreq < MaxReq
    /\ nreq' = nreq + 1
    /\ req' = [req EXCEPT ![p] = NewReq(r)]

\* The response r to request rq is sent.
Respond(p, rq, r) ==
    /\ pc' = [pc EXCEPT ![p] = "done"]
    /\ log' = Append(log, [req |-> rq, resp |-> r])

Finish(p, r) == Respond(p, req[p], r)

Goto(p, label) == pc' = [pc EXCEPT ![p] = label]

\* except Exception as e: ... 500
Error500 == [NoResp EXCEPT !.status = 500, !.outcome = "IOFailure"]

\* ----------------------------------------------------------------- upload
\* datetime.now(): the local date is the one last read or a later one.
Today == day..MaxDay

\* The time the file system stamps a write with: the last one or a later one.
Now == clock..MaxClock

\* upload_file up to the choice of the timestamp directory
\* (the fields a rejected request never reads take one value; the requests
\* tried are a slice of the inputs: two contents under report.csv only, and
\* clear_existing=true with report.csv and with the name that sanitizes to
\* the empty one)
UploadStart(p, in) ==
    \E hasFile \in BOOLEAN, filename \in in.names, content \in in.contents,
       clear \in BOOLEAN, d \in Today :
        /\ hasFile \/ filename = <<>>
        /\ (~hasFile \/ filename = <<>>) => d = day
        /\ (filename = <<>>) => (content = <<2, 3>> /\ ~clear)
        /\ (filename \notin {<<>>, ReportCsv}) => (content = <<2, 3>>)
        /\ clear => (content = <<2, 3>> /\ filename \in {ReportCsv, <<".", ".", "/">>})
        /\ LET r == [NoReq EXCEPT !.op = "upload", !.hasFile = hasFile,
                                  !.filename = filename, !.content = content,
                                  !.clear_existing = clear, !.date = d]
           IN
           /\ Begin(p, r)
           /\ IF ~hasFile
              THEN /\ Respond(p, NewReq(r),
                              [NoResp EXCEPT !.status = 400, !.outcome = "NoFile"])
                   /\ loc' = [loc EXCEPT ![p] = NoLoc]
              ELSE IF filename = <<>>
              THEN /\ Respond(p, NewReq(r),
                              [NoResp EXCEPT !.status = 400, !.outcome = "EmptyFilename"])
                   /\ loc' = [loc EXCEPT ![p] = NoLoc]
              ELSE /\ Goto(p, "u_mkdir")
                   /\ loc' = [loc EXCEPT ![p] = [NoLoc EXCEPT !.timestamp = DateKey(d)]]
                   /\ UNCHANGED log
        /\ day' = d
        /\ UNCHANGED <<API_KEY, fs, clock>>

\* (the date read again at each use)
timestamp_dir_resampled(p) == BASE_FOLDER \o <<DateKey(day)>>

\* timestamp_dir = base_folder / timestamp
timestamp_dir(p) == BASE_FOLDER \o <<loc[p].timestamp>>

\* ensure_directory_exists(timestamp_dir): mkdir(parents=True, exist_ok=True)
ensure_directory_exists(f, directory) ==
    IF Exists(f, directory) THEN f ELSE Put(f, directory, DirNode)

UploadMkdir(p) ==
    /\ pc[p] = "u_mkdir"
    /\ fs' = ensure_directory_exists(fs, timestamp_dir(p))
    /\ Goto(p, IF req[p].clear_existing THEN "u_iterdir" ELSE "u_open")
    /\ UNCHANGED <<API_KEY, clock, day, nreq, req, loc, log>>

\* delete_directory_files: the existence test and directory.iterdir()
DeleteIterdir(p) ==
    /\ pc[p] = "u_iterdir"
    /\ IF ~IsDir(fs, timestamp_dir(p))
       THEN /\ Goto(p, "u_open")
            /\ UNCHANGED loc
       ELSE /\ Goto(p, "u_isfile")
            /\ loc' = [loc EXCEPT ![p].items = IterDir(fs, timestamp_dir(p)),
                                  ![p].files_deleted = 0]
    /\ UNCHANGED <<API_KEY, fs, clock, day, nreq, req, log>>

\* delete_directory_files: the next item of the loop and item.is_file()
DeleteIsFile(p) ==
    /\ pc[p] = "u_isfile"
    /\ IF loc[p].items = {}
       THEN /\ Goto(p, "u_open")
            /\ UNCHANGED loc
       ELSE \E item \in loc[p].items :
            /\ loc' = [loc EXCEPT ![p].items = @ \ {item}, ![p].item = item]
            /\ Goto(p, IF IsFile(fs, item) THEN "u_unlink" ELSE "u_isfile")
    /\ UNCHANGED <<API_KEY, fs, clock, day, nreq, req, log>>

\* delete_directory_files: item.unlink(); an exception ends the function
\* with (False, 0) and the upload with 500
DeleteUnlink(p) ==
    /\ pc[p] = "u_unlink"
    /\ IF Exists(fs, loc[p].item)
       THEN /\ fs' = Unlink(fs, loc[p].item)
            /\ loc' = [loc EXCEPT ![p].files_deleted = @ + 1]
            /\ Goto(p, "u_isfile")
            /\ UNCHANGED log
       ELSE /\ Finish(p, [NoResp EXCEPT !.status = 500, !.outcome = "ClearFailed"])
            /\ UNCHANGED <<fs, loc>>
    /\ UNCHANGED <<API_KEY, clock, day, nreq, req>>

\* filename = secure_filename(file.filename); file_path = timestamp_dir / filename
upload_file_path(p) ==
    JoinPath(timestamp_dir(p), secure_filename(req[p].filename))

\* (the file opened without truncating it)
OpenWb_noTruncate(f, path, t, id) ==
    IF IsFile(f, path) THEN Put(f, path, [f[path] EXCEPT !.mtime = t])
    ELSE Put(f, path, FileNode(<<>>, t, id))

\* open(dst, "wb") of file.save: creates the file or truncates it in place
\* (the kernel resolves the path; a directory or a missing parent is an error)
OpenWb(f, path, t, id) ==
    Put(f, path, FileNode(<<>>, t, IF IsFile(f, path) THEN f[path].ino ELSE id))

UploadOpen(p) ==
    /\ pc[p] = "u_open"
    /\ LET path == Resolve(upload_file_path(p)) IN
       IF IsDir(fs, path) \/ ~IsDir(fs, Parent(path))
       THEN /\ Finish(p, Error500)
            /\ UNCHANGED <<fs, clock, loc>>
       ELSE \E t \in Now :
            /\ fs' = OpenWb(fs, path, t, req[p].id)
            /\ clock' = t
            /\ loc' = [loc EXCEPT ![p].file_path = path, ![p].offset = 0,
                                  ![p].ino = fs'[path].ino]
            /\ Goto(p, "u_write")
            /\ UNCHANGED log
    /\ UNCHANGED <<API_KEY, day, nreq, req>>

\* The inode the open handle of worker p writes to is still at its path.
HandleLinked(p) ==
    /\ IsFile(fs, loc[p].file_path)
    /\ fs[loc[p].file_path].ino = loc[p].ino

\* file.save: one chunk written through the open handle (the close after the
\* last one changes nothing)
UploadWrite(p) ==
    /\ pc[p] = "u_write"
    /\ IF HandleLinked(p)
       THEN \E t \in Now :
            /\ fs' = Put(fs, loc[p].file_path,
                         [fs[loc[p].file_path] EXCEPT
                             !.content = WriteAt(@, loc[p].offset,
                                                 req[p].content[loc[p].offset + 1]),
                             !.mtime = t])
            /\ clock' = t
       ELSE UNCHANGED <<fs, clock>>
    /\ loc' = [loc EXCEPT ![p].offset = @ + 1]
    /\ Goto(p, IF loc[p].offset + 1 < Len(req[p].content) THEN "u_write" ELSE "u_stat")
    /\ UNCHANGED <<API_KEY, day, nreq, req, log>>

\* response_data with file_path.stat().st_size
UploadStat(p) ==
    /\ pc[p] = "u_stat"
    /\ IF ~Exists(fs, loc[p].file_path)
       THEN Finish(p, Error500)
       ELSE Finish(p, [NoResp EXCEPT
                !.status = 200, !.outcome = "Uploaded",
                !.filename = secure_filename(req[p].filename),
                !.directory = loc[p].timestamp,
                !.size_bytes = Len(fs[loc[p].file_path].content),
                !.files_deleted = loc[p].files_deleted])
    /\ UNCHANGED <<API_KEY, fs, clock, day, nreq, req, loc>>

\* --------------------------------------------------------------- download
\* send_file(path): the file is opened and its content is the body
SendFile(p, path, outcome) ==
    IF ~IsFile(fs, path)
    THEN Finish(p, Error500)
    ELSE Finish(p, [NoResp EXCEPT !.status = 200, !.outcome = outcome,
                                 !.filename = Name(path),
                                 !.body = fs[path].content, !.path = path])

\* download_file: today's directory and the test that it exists
DownloadStart(p) ==
    \E d \in Today :
        LET today == DateKey(d)
            r == [NoReq EXCEPT !.op = "download", !.date = d]
        IN
        /\ Begin(p, r)
        /\ day' = d
        /\ loc' = [loc EXCEPT ![p] = [NoLoc EXCEPT !.timestamp = today]]
        /\ IF ~IsDir(fs, BASE_FOLDER \o <<today>>)
           THEN Respond(p, NewReq(r),
                        [NoResp EXCEPT !.status = 404, !.outcome = "NotFound",
                                       !.directory = today])
           ELSE /\ Goto(p, "d_iterdir")
                /\ UNCHANGED log
        /\ UNCHANGED <<API_KEY, fs, clock>>

today_dir(p) == BASE_FOLDER \o <<loc[p].timestamp>>

\* (hidden files not excluded)
ListBucket_withHidden(f, d) == {q \in IterDir(f, d) : IsFile(f, q)}

\* all_files = [f for f in today_dir.iterdir() if f.is_file() and not hidden]
ListBucket(f, d) ==
    {q \in IterDir(f, d) : IsFile(f, q) /\ ~StartsWithDot(Name(q))}

DownloadIterdir(p) ==
    /\ pc[p] = "d_iterdir"
    /\ LET all_files == ListBucket(fs, today_dir(p)) IN
       /\ loc' = [loc EXCEPT ![p].all_files = all_files]
       /\ IF all_files = {}
          THEN Finish(p, [NoResp EXCEPT !.status = 404, !.outcome = "Empty",
                                       !.directory = loc[p].timestamp])
          ELSE /\ Goto(p, IF Cardinality(all_files) = 1 THEN "d_send" ELSE "d_sort")
               /\ UNCHANGED log
    /\ UNCHANGED <<API_KEY, fs, clock, day, nreq, req>>

\* if len(all_files) == 1: send_file(all_files[0])
DownloadSend(p) ==
    /\ pc[p] = "d_send"
    /\ \E path \in loc[p].all_files : SendFile(p, path, "SingleFile")
    /\ UNCHANGED <<API_KEY, fs, clock, day, nreq, req, loc>>

\* The orders sorted(files, key=st_mtime, reverse=True) can give: every
\* arrangement of the files with the keys not increasing (iterdir's order,
\* which the stable sort keeps among equal keys, is arbitrary).
SortedByMtimeDesc(f, files) ==
    {s \in [1..Cardinality(files) -> files] :
        /\ \A i, j \in DOMAIN s : i # j => s[i] # s[j]
        /\ \A i, j \in DOMAIN s : i < j => f[s[i]].mtime >= f[s[j]].mtime}

\* sorted(all_files, key=lambda p: p.stat().st_mtime, reverse=True)
DownloadSort(p) ==
    /\ pc[p] = "d_sort"
    /\ IF \E q \in loc[p].all_files : ~Exists(fs, q)
       THEN /\ Finish(p, Error500)
            /\ UNCHANGED loc
       ELSE \E s \in SortedByMtimeDesc(fs, loc[p].all_files) :
            /\ loc' = [loc EXCEPT ![p].sorted = s]
            /\ Goto(p, "d_build")
            /\ UNCHANGED log
    /\ UNCHANGED <<API_KEY, fs, clock, day, nreq, req>>

\* '/api/file/': the fixed part of the route of get_file
ApiFile == <<"/", "api", "/", "file", "/">>

\* One entry of files_info: f.stat() for the size and for the time
FileInfo(f, q, today) ==
    [filename |-> Name(q), size_bytes |-> Len(f[q].content), modified |-> f[q].mtime,
     download_url |-> ApiFile \o today \o <<"/">> \o Name(q)]

\* files_info and the listing response
DownloadBuild(p) ==
    /\ pc[p] = "d_build"
    /\ IF \E q \in loc[p].all_files : ~Exists(fs, q)
       THEN Finish(p, Error500)
       ELSE Finish(p, [NoResp EXCEPT
                !.status = 200, !.outcome = "FileListing",
                !.directory = loc[p].timestamp,
                !.count = Cardinality(loc[p].all_files),
                !.files = [i \in DOMAIN loc[p].sorted |->
                              FileInfo(fs, loc[p].sorted[i], loc[p].timestamp)]])
    /\ UNCHANGED <<API_KEY, fs, clock, day, nreq, req, loc>>

\* ------------------------------------------------------------- list-files
ListStart(p, in) ==
    \E type \in in.types :
        /\ Begin(p, [NoReq EXCEPT !.op = "list_files", !.type = type, !.date = day])
        /\ loc' = [loc EXCEPT ![p] =
                      [NoLoc EXCEPT !.cat = IF type = "uploads" THEN "uploads"
                                            ELSE "downloads"]]
        /\ Goto(p, "l_glob")
        /\ UNCHANGED <<API_KEY, fs, clock, day, log>>

\* [f for f in BASE_FOLDER.glob('**/*') if f.is_file() and not hidden]
ListGlob(p) ==
    /\ pc[p] = "l_glob"
    /\ loc' = [loc EXCEPT ![p].all_files =
                  {q \in GlobAll(fs, BASE_FOLDER) :
                      IsFile(fs, q) /\ ~StartsWithDot(Name(q))}]
    /\ Goto(p, "l_sort")
    /\ UNCHANGED <<API_KEY, fs, clock, day, nreq, req, log>>

\* sorted(downloads, key=lambda p: p.stat().st_mtime, reverse=True)
ListSort(p) ==
    /\ pc[p] = "l_sort"
    /\ IF \E q \in loc[p].all_files : ~Exists(fs, q)
       THEN /\ Finish(p, Error500)
            /\ UNCHANGED loc
       ELSE \E s \in SortedByMtimeDesc(fs, loc[p].all_files) :
            /\ loc' = [loc EXCEPT ![p].sorted = s]
            /\ Goto(p, "l_build")
            /\ UNCHANGED log
    /\ UNCHANGED <<API_KEY, fs, clock, day, nreq, req>>

\* One entry of files['downloads'] or files['uploads']
ListInfo(f, q) ==
    [filename |-> Name(q),
     directory |-> IF Parent(q) # BASE_FOLDER THEN Name(Parent(q)) ELSE <<>>,
     relative_path |-> SubSeq(q, Len(BASE_FOLDER) + 1, Len(q)),
     size_bytes |-> Len(f[q].content), modified |-> f[q].mtime]

\* The entries of one category; after 'downloads' of type 'both', 'uploads'
ListBuild(p) ==
    /\ pc[p] = "l_build"
    /\ IF \E q \in loc[p].all_files : ~Exists(fs, q)
       THEN /\ Finish(p, Error500)
            /\ UNCHANGED loc
       ELSE LET infos == [i \in DOMAIN loc[p].sorted |-> ListInfo(fs, loc[p].sorted[i])] IN
            IF loc[p].cat = "downloads" /\ req[p].type = "both"
            THEN /\ loc' = [loc EXCEPT ![p].downloads = infos, ![p].cat = "uploads",
                                       ![p].all_files = {}, ![p].sorted = <<>>]
                 /\ Goto(p, "l_glob")
                 /\ UNCHANGED log
            ELSE /\ Finish(p, [NoResp EXCEPT
                        !.status = 200, !.outcome = "FileList",
                        !.downloads = IF loc[p].cat = "downloads" THEN infos
                                      ELSE loc[p].downloads,
                        !.uploads = IF loc[p].cat = "uploads" THEN infos ELSE <<>>])
                 /\ UNCHANGED loc
    /\ UNCHANGED <<API_KEY, fs, clock, day, nreq, req>>

\* ------------------------------------------------------ explicit file fetch
\* (the query parameter never read)
check_api_key_headerOnly(header, query, secret) ==
    IF header \in {NoKey, ""} THEN "MissingKey"
    ELSE IF header # secret THEN "InvalidKey"
    ELSE "Authorized"

\* (an empty key not taken as a missing one)
check_api_key_emptyAccepted(header, query, secret) ==
    LET api_key == IF header \in {NoKey, ""} THEN query ELSE header IN
    IF api_key = NoKey THEN "MissingKey"
    ELSE IF api_key # secret THEN "InvalidKey"
    ELSE "Authorized"

\* check_api_key: the header first, the query parameter when the header is
\* absent or empty; "not api_key" holds of None and of "".
check_api_key(header, query, secret) ==
    LET api_key == IF header \in {NoKey, ""} THEN query ELSE header IN
    IF api_key \in {NoKey, ""} THEN "MissingKey"
    ELSE IF api_key # secret THEN "InvalidKey"
    ELSE "Authorized"

\* @app.route('/api/file/<path:filepath>'): the filepath of a URL path the
\* route matches (the rest of it, which is not empty)
RouteMatches(url) ==
    Len(url) > Len(ApiFile) /\ SubSeq(url, 1, Len(ApiFile)) = ApiFile

RouteFilepath(url) == SubSeq(url, Len(ApiFile) + 1, Len(url))

\* (the segments joined with nothing between them)
RECURSIVE JoinSlash_noSeparator(_)
JoinSlash_noSeparator(parts) ==
    IF parts = <<>> THEN <<>>
    ELSE Head(parts) \o JoinSlash_noSeparator(Tail(parts))

\* secure_filepath = '/'.join(secure_parts)
SecurePath(parts) == JoinSlash(parts)

\* file_path = base_directory / '/'.join(secure_filename(part) for part in
\* filepath.split('/'))
get_file_path(filepath) ==
    JoinPath(BASE_FOLDER, SecurePath(MapSecure(Split(filepath))))

\* (the test left out)
WithinBase_unchecked(file_path) == TRUE

\* file_path.resolve().relative_to(base_directory.resolve()) raises no ValueError
WithinBase(file_path) == IsRelativeTo(Resolve(file_path), Resolve(BASE_FOLDER))

\* get_file up to the test that the file exists, for the filepath of the
\* URL and the pair k of what the header and the query parameter carry
GetFile(p, filepath, k) ==
        /\ LET r == [NoReq EXCEPT !.op = "get_file", !.filepath = filepath,
                                  !.header = k[1], !.query = k[2], !.date = day]
               guard == check_api_key(k[1], k[2], API_KEY)
               file_path == get_file_path(filepath)
           IN
           /\ Begin(p, r)
           /\ loc' = [loc EXCEPT ![p] = [NoLoc EXCEPT !.file_path = file_path]]
           /\ IF guard # "Authorized"
              THEN Respond(p, NewReq(r), [NoResp EXCEPT !.status = 401, !.outcome = guard])
              ELSE IF ~WithinBase(file_path)
              THEN Respond(p, NewReq(r),
                           [NoResp EXCEPT !.status = 400, !.outcome = "PathEscape"])
              ELSE IF ~IsFile(fs, file_path)
              THEN Respond(p, NewReq(r),
                           [NoResp EXCEPT !.status = 404, !.outcome = "NotFound"])
              ELSE /\ Goto(p, "g_send")
                   /\ UNCHANGED log
        /\ UNCHANGED <<API_KEY, fs, clock, day>>

\* The explicit fetches tried (the path varies under one way of presenting
\* the key; under the others it is the first path)
GetFileStart(p, in) ==
    \E filepath \in FetchPaths(day), k \in in.keys :
        /\ (k # <<Secret, NoKey>>) => (filepath = DateKey(day) \o <<"/">> \o ReportCsv)
        /\ GetFile(p, filepath, k)

\* return send_file(file_path, ...)
GetFileSend(p) ==
    /\ pc[p] = "g_send"
    /\ SendFile(p, loc[p].file_path, "File")
    /\ UNCHANGED <<API_KEY, fs, clock, day, nreq, req, loc>>

\* ---------------------------------------------------------- specifications
\* The inputs the requests are drawn from.  Requests that change the storage
\* present the key in one way; requests that run concurrently also take
\* fewer names.
AllInputs ==
    [names |-> UploadNames \cup {<<>>}, contents |-> Contents,
     keys |-> {<<Secret, NoKey>>}, types |-> {"both", "downloads", "uploads"}]

SomeInputs ==
    [names |-> {ReportCsv, <<"/", "b">>}, contents |-> {<<2, 3>>},
     keys |-> {<<Secret, NoKey>>}, types |-> {"uploads"}]

KeyInputs == [AllInputs EXCEPT !.keys = KeyPairs]

StorageStep(p) ==
    \/ UploadMkdir(p)
    \/ DeleteIterdir(p)
    \/ DeleteIsFile(p)
    \/ DeleteUnlink(p)
    \/ UploadOpen(p)
    \/ UploadWrite(p)
    \/ UploadStat(p)
    \/ DownloadIterdir(p)
    \/ DownloadSend(p)
    \/ DownloadSort(p)
    \/ DownloadBuild(p)
    \/ GetFileSend(p)

ListStep(p) ==
    \/ ListGlob(p)
    \/ ListSort(p)
    \/ ListBuild(p)

\* The secret is configured; the handlers other than get_file never read it.
SecretInit == Init /\ API_KEY = Secret

\* Requests are handled concurrently, one per worker.
Next ==
    \/ \E p \in Procs : UploadStart(p, SomeInputs) /\ UNCHANGED client
    \/ \E p \in Procs : DownloadStart(p) /\ UNCHANGED client
    \/ \E p \in Procs : ListStart(p, SomeInputs) /\ UNCHANGED client
    \/ \E p \in Procs : GetFileStart(p, SomeInputs) /\ UNCHANGED client
    \/ \E p \in Procs : StorageStep(p) /\ UNCHANGED client
    \/ \E p \in Procs : ListStep(p) /\ UNCHANGED client

Spec == SecretInit /\ [][Next]_vars

\* Uploads, Retrieve-today and explicit fetches handled one after the other.
NextSeq ==
    \/ \E p \in Procs : Quiet /\ UploadStart(p, AllInputs) /\ UNCHANGED client
    \/ \E p \in Procs : Quiet /\ DownloadStart(p) /\ UNCHANGED client
    \/ \E p \in Procs : Quiet /\ GetFileStart(p, AllInputs) /\ UNCHANGED client
    \/ \E p \in Procs : StorageStep(p) /\ UNCHANGED client

SeqSpec == SecretInit /\ [][NextSeq]_vars

\* Explicit file fetches alone, under either configuration of the secret and
\* every way of presenting a key.
NextGuard ==
    \/ \E p \in Procs : GetFileStart(p, KeyInputs) /\ UNCHANGED client
    \/ \E p \in Procs : GetFileSend(p) /\ UNCHANGED client

GuardSpec == Init /\ [][NextGuard]_vars

\* The server's local date passes to the next day, at any moment of a request.
Midnight ==
    /\ day < MaxDay
    /\ day' = day + 1
    /\ UNCHANGED <<API_KEY, fs, clock, nreq, pc, req, loc, log>>

DateInputs == [SomeInputs EXCEPT !.names = {ReportCsv}]

DateStep(p) ==
    \/ UploadMkdir(p)
    \/ DeleteIterdir(p)
    \/ DeleteIsFile(p)
    \/ DeleteUnlink(p)
    \/ UploadOpen(p)
    \/ UploadWrite(p)
    \/ UploadStat(p)
    \/ DownloadIterdir(p)
    \/ DownloadSend(p)
    \/ DownloadSort(p)
    \/ DownloadBuild(p)

\* Uploads and Retrieve-today handled one after the other while the date
\* changes under them.
NextDate ==
    \/ \E p \in Procs : Quiet /\ UploadStart(p, DateInputs) /\ UNCHANGED client
    \/ \E p \in Procs : Quiet /\ DownloadStart(p) /\ UNCHANGED client
    \/ \E p \in Procs : DateStep(p) /\ UNCHANGED client
    \/ Midnight /\ UNCHANGED client

DateSpec == SecretInit /\ [][NextDate]_vars

\* ------------------------------------------------- the companion downloader
\* main: download_file_from_server(args.server, save_dir), whose
\* requests.get(server_url) sends a GET of the Retrieve-today URL with no key
ClientRequestList(p) ==
    /\ client.pc = "idle"
    /\ DownloadStart(p)
    /\ client' = [client EXCEPT !.pc = "wait", !.id = nreq + 1]

\* The response is JSON (jsonify) and not a file (send_file).
IsJson(r) == r.outcome \notin {"SingleFile", "File"}

\* The name the response is saved under: the one given by the caller, else
\* the one of the Content-Disposition header.
SaveName(filename, r) == IF filename # <<>> THEN filename ELSE r.filename

\* download_file_from_server once the response is there: a listing is followed
\* by its first entry, a file is saved, anything else is a failure
ClientReceive ==
    /\ client.pc = "wait"
    /\ \E i \in DOMAIN log :
        /\ log[i].req.id = client.id
        /\ LET r == log[i].resp IN
           client' =
              IF r.status # 200
              THEN [client EXCEPT !.pc = "end", !.result = "failure"]
              ELSE IF IsJson(r)
              THEN IF r.files # <<>>
                   THEN [client EXCEPT !.pc = "follow", !.followed = TRUE,
                                       !.url = r.files[1].download_url,
                                       !.filename = r.files[1].filename]
                   ELSE [client EXCEPT !.pc = "end", !.result = "failure"]
              ELSE [client EXCEPT !.pc = "end", !.result = "success",
                        !.saved = (SaveName(client.filename, r) :> r.body) @@ @]
    /\ UNCHANGED <<API_KEY, fs, clock, day, nreq, pc, req, loc, log>>

\* The recursive call download_file_from_server(full_download_url, save_dir,
\* filename_to_use): base_url + download_url is requested, again with neither
\* the X-API-Key header nor the api_key parameter
ClientRequestFile(p) ==
    /\ client.pc = "follow"
    /\ RouteMatches(client.url)
    /\ GetFile(p, RouteFilepath(client.url), <<NoKey, NoKey>>)
    /\ client' = [client EXCEPT !.pc = "wait", !.id = nreq + 1]

\* One run of the downloader against the server, under either configuration
\* of the secret, with uploads before or between its requests.
NextClient ==
    \/ \E p \in Procs : Quiet /\ UploadStart(p, DateInputs) /\ UNCHANGED client
    \/ \E p \in Procs : Quiet /\ ClientRequestList(p)
    \/ \E p \in Procs : Quiet /\ ClientRequestFile(p)
    \/ ClientReceive
    \/ \E p \in Procs : DateStep(p) /\ UNCHANGED client

ClientSpec == Init /\ [][NextClient]_vars

\* ------------------------------------------------------------- properties
\* The request of log entry e was authorized by the guard.
Authorized(e) == e.resp.outcome \notin {"MissingKey", "InvalidKey"}

\* The entry is the response just sent and no request is being handled: fs is
\* the storage the request left.
JustDone(i) == i = Len(log) /\ Quiet

\* The paths at which the storages f and g differ.
Changed(f, g) ==
    {q \in DOMAIN f \cup DOMAIN g :
        q \notin DOMAIN f \/ q \notin DOMAIN g \/ f[q] # g[q]}

\* The path an explicit fetch of filepath addresses: the segments between the
\* separators, each sanitized, joined onto the root and made canonical.
FetchTarget(filepath) ==
    Resolve(JoinPath(BASE_FOLDER, JoinSlash(MapSecure(Split(filepath)))))

InsideRoot(path) == IsRelativeTo(path, BASE_FOLDER) /\ Len(path) > Len(BASE_FOLDER)

\* C1: an explicit fetch made with a valid key streams, if anything, a file
\* inside the storage root; when the path it addresses resolves outside the
\* root the answer is 400 invalid-path and carries no file content.
C1_FetchStaysInRoot ==
    /\ \A i \in DOMAIN log :
        LET e == log[i] IN
        (e.req.op = "get_file" /\ Authorized(e)) =>
            /\ e.resp.status = 200 =>
                  (InsideRoot(e.resp.path) /\ e.resp.body # SecretContent)
            /\ ~IsRelativeTo(FetchTarget(e.req.filepath), BASE_FOLDER) =>
                  (e.resp.status = 400 /\ e.resp.outcome = "PathEscape"
                      /\ e.resp.body = <<>>)
    /\ \A p \in Procs : pc[p] = "g_send" => InsideRoot(loc[p].file_path)

\* A fetch of a path that addresses an existing file outside the root was
\* answered 400.
C1_Witness ==
    \E i \in DOMAIN log :
        /\ log[i].req.op = "get_file"
        /\ Authorized(log[i])
        /\ IsFile(log[i].req.before, FetchTarget(log[i].req.filepath))
        /\ ~IsRelativeTo(FetchTarget(log[i].req.filepath), BASE_FOLDER)
        /\ log[i].resp.status = 400

\* The raw name or path contains "../" or starts with "/".
IsTraversal(s) ==
    \/ s # <<>> /\ Head(s) = "/"
    \/ \E i \in 1..(Len(s) - 2) : s[i] = "." /\ s[i + 1] = "." /\ s[i + 2] = "/"

RawPath(e) == IF e.req.op = "upload" THEN e.req.filename ELSE e.req.filepath

\* C2 as claimed: an upload or explicit fetch whose raw name or path contains
\* "../" or an absolute prefix ends in PathEscape and leaves the storage as
\* it was.
C2_TraversalIsPathEscape ==
    \A i \in DOMAIN log :
        LET e == log[i] IN
        (e.req.op \in {"upload", "get_file"} /\ Authorized(e) /\ IsTraversal(RawPath(e))) =>
            /\ e.resp.outcome = "PathEscape"
            /\ JustDone(i) => fs = e.req.before

\* C2 as amended: such a request reads and changes nothing outside the
\* storage root.  The upload stores the file under the sanitized name directly
\* inside the bucket of its date, or fails with 500 when the sanitized name is
\* empty, and changes nothing but that bucket; the fetch changes nothing and
\* ends in PathEscape exactly when the sanitized path resolves outside the
\* root, otherwise with the file at that path or 404.
C2_TraversalStaysInBucket ==
    \A i \in DOMAIN log :
        LET e == log[i]
            bucket == BASE_FOLDER \o <<DateKey(e.req.date)>>
        IN
        (e.req.op \in {"upload", "get_file"} /\ Authorized(e) /\ IsTraversal(RawPath(e))) =>
            IF e.req.op = "upload"
            THEN /\ e.resp.outcome \in {"Uploaded", "IOFailure"}
                 /\ e.resp.outcome = "Uploaded" =>
                       /\ e.resp.filename # <<>>
                       /\ e.resp.filename # DotDot
                       /\ \A k \in DOMAIN e.resp.filename : e.resp.filename[k] # "/"
                       /\ e.resp.directory = DateKey(e.req.date)
                 /\ JustDone(i) =>
                       /\ \A q \in Changed(fs, e.req.before) :
                             q = bucket \/ Parent(q) = bucket
                       /\ e.resp.outcome = "Uploaded" =>
                             /\ IsFile(fs, bucket \o <<e.resp.filename>>)
                             /\ fs[bucket \o <<e.resp.filename>>].content = e.req.content
                       /\ e.resp.outcome = "IOFailure" =>
                             \A q \in Changed(fs, e.req.before) : q \notin DOMAIN fs \/ q = bucket
            ELSE /\ e.resp.outcome \in {"PathEscape", "File", "NotFound"}
                 /\ e.resp.outcome = "PathEscape" <=>
                       ~IsRelativeTo(FetchTarget(e.req.filepath), BASE_FOLDER)
                 /\ e.resp.outcome = "File" =>
                       (InsideRoot(e.resp.path) /\ e.resp.path = FetchTarget(e.req.filepath))
                 /\ JustDone(i) => fs = e.req.before

\* An upload under a name with "../" stored its file, and a fetch of a path
\* with an inner "../" was served the file.
C2_Witness ==
    /\ \E i \in DOMAIN log :
        /\ log[i].req.op = "upload"
        /\ IsTraversal(log[i].req.filename)
        /\ log[i].resp.outcome = "Uploaded"
    /\ \E i \in DOMAIN log :
        /\ log[i].req.op = "get_file"
        /\ IsTraversal(log[i].req.filepath)
        /\ log[i].resp.outcome = "File"

\* The regular files of a bucket whose names do not begin with ".".
VisibleFiles(f, bucket) ==
    {q \in DOMAIN f :
        /\ Len(q) = Len(bucket) + 1
        /\ SubSeq(q, 1, Len(bucket)) = bucket
        /\ f[q].kind = "file"
        /\ Head(q[Len(q)]) # "."}

\* C3: Retrieve-today answers NotFound exactly when today's bucket does not
\* exist, Empty exactly when it holds no visible regular file, the one file
\* itself exactly when it holds one, and a listing exactly when it holds two or
\* more, with count the number of those files.
C3_RetrieveTodayOutcome ==
    \A i \in DOMAIN log :
        LET e == log[i]
            f == e.req.before
            bucket == BASE_FOLDER \o <<DateKey(e.req.date)>>
            n == Cardinality(VisibleFiles(f, bucket))
        IN
        e.req.op = "download" =>
            /\ e.resp.outcome \in {"NotFound", "Empty", "SingleFile", "FileListing"}
            /\ e.resp.outcome = "NotFound" <=> ~IsDir(f, bucket)
            /\ e.resp.outcome = "Empty" <=> (IsDir(f, bucket) /\ n = 0)
            /\ e.resp.outcome = "SingleFile" <=> (IsDir(f, bucket) /\ n = 1)
            /\ e.resp.outcome = "FileListing" <=> (IsDir(f, bucket) /\ n >= 2)
            /\ e.resp.outcome \in {"NotFound", "Empty"} => e.resp.status = 404
            /\ e.resp.outcome = "SingleFile" =>
                  /\ e.resp.status = 200
                  /\ e.resp.path \in VisibleFiles(f, bucket)
                  /\ e.resp.body = f[e.resp.path].content
            /\ e.resp.outcome = "FileListing" =>
                  /\ e.resp.status = 200
                  /\ e.resp.count = n
                  /\ Len(e.resp.files) = n
                  /\ {e.resp.files[k].filename : k \in DOMAIN e.resp.files}
                        = {Name(q) : q \in VisibleFiles(f, bucket)}

\* After an upload, Retrieve-today listed a bucket that also holds a hidden
\* file.
C3_Witness ==
    \E i, j \in DOMAIN log :
        /\ i < j
        /\ log[i].resp.outcome = "Uploaded"
        /\ log[j].req.op = "download"
        /\ log[j].resp.outcome = "FileListing"
        /\ log[j].resp.count = 2
        /\ \E q \in IterDir(log[j].req.before, BASE_FOLDER \o <<log[j].resp.directory>>) :
              StartsWithDot(Name(q))

\* C4: a store of content X under the raw name report.csv followed at once by
\* an explicit fetch of (bucket key, report.csv) with a valid key returns X,
\* and the size the upload reported is the length of X.
C4_RoundTrip ==
    \A i \in DOMAIN log :
        (/\ log[i].req.op = "upload"
         /\ log[i].req.filename = ReportCsv
         /\ log[i].resp.outcome = "Uploaded") =>
            /\ log[i].resp.size_bytes = Len(log[i].req.content)
            /\ (/\ i + 1 \in DOMAIN log
                /\ log[i + 1].req.op = "get_file"
                /\ Authorized(log[i + 1])
                /\ log[i + 1].req.filepath = log[i].resp.directory \o <<"/">> \o ReportCsv) =>
                   /\ log[i + 1].resp.status = 200
                   /\ log[i + 1].resp.body = log[i].req.content

\* A two-chunk report.csv was stored and fetched back.
C4_Witness ==
    \E i \in DOMAIN log :
        /\ log[i].req.op = "upload"
        /\ log[i].req.filename = ReportCsv
        /\ log[i].req.content = <<2, 3>>
        /\ log[i].resp.outcome = "Uploaded"
        /\ i + 1 \in DOMAIN log
        /\ log[i + 1].req.op = "get_file"
        /\ log[i + 1].req.filepath = log[i].resp.directory \o <<"/">> \o ReportCsv
        /\ log[i + 1].resp.status = 200

\* The requests received so far: the answered ones and those being handled.
Requests ==
    {log[i].req : i \in DOMAIN log} \cup {req[p] : p \in {q \in Procs : ~Free(q)}}

\* The complete contents a file at path has had: the one it started with and
\* those of the stores to it.
CompleteContents(path) ==
    {r.content : r \in {x \in Requests :
        /\ x.op = "upload" /\ x.hasFile /\ x.filename # <<>>
        /\ Resolve(JoinPath(BASE_FOLDER \o <<DateKey(x.date)>>,
                            secure_filename(x.filename))) = path}}
    \cup (IF path \in DOMAIN SeededFS THEN {SeededFS[path].content} ELSE {})

\* C5 as claimed: a fetch that runs while the same file is being stored is
\* served the complete previous content or the complete new content, never an
\* empty or partly written file.
C5_NoPartialRead ==
    \A i \in DOMAIN log :
        (log[i].resp.outcome \in {"File", "SingleFile"}) =>
            log[i].resp.body \in CompleteContents(log[i].resp.path)

\* The key value a channel carries, if any: an absent parameter and an empty
\* one carry none.
Given(v) == v \notin {NoKey, ""}

GuardOutcome(e) == IF Authorized(e) THEN "Authorized" ELSE e.resp.outcome

\* C6: with no key on either channel the guard answers MissingKey; with a key
\* on one channel (or the same key on both) it answers InvalidKey when the key
\* differs from the secret and authorizes when it equals it; and two requests
\* for the same path that carry the same value, one in the header and one in
\* the query parameter, are answered alike.
C6_GuardChannelIndifferent ==
    \A i \in DOMAIN log :
        LET e == log[i]
            h == e.req.header
            q == e.req.query
        IN
        e.req.op = "get_file" =>
            /\ (~Given(h) /\ ~Given(q)) =>
                  (e.resp.outcome = "MissingKey" /\ e.resp.status = 401)
            /\ \A k \in {h, q} :
                  (Given(k) /\ \A v \in {h, q} : Given(v) => v = k) =>
                      IF k = API_KEY
                      THEN Authorized(e) /\ e.resp.status # 401
                      ELSE e.resp.outcome = "InvalidKey" /\ e.resp.status = 401
            /\ \A j \in DOMAIN log :
                  (/\ log[j].req.op = "get_file"
                   /\ log[j].req.filepath = e.req.filepath
                   /\ log[j].req.query = h
                   /\ log[j].req.header = NoKey
                   /\ q = NoKey) =>
                      (GuardOutcome(log[j]) = GuardOutcome(e) /\ log[j].resp = e.resp)

\* The secret was presented once in the header and once in the query
\* parameter, and both requests were authorized.
C6_Witness ==
    \E i, j \in DOMAIN log :
        /\ log[i].req.op = "get_file" /\ log[j].req.op = "get_file"
        /\ log[i].req.header = Secret /\ log[i].req.query = NoKey
        /\ log[j].req.header = NoKey /\ log[j].req.query = Secret
        /\ Authorized(log[i]) /\ Authorized(log[j])

RegularFiles(f, bucket) ==
    {q \in DOMAIN f :
        /\ Len(q) = Len(bucket) + 1
        /\ SubSeq(q, 1, Len(bucket)) = bucket
        /\ f[q].kind = "file"}

\* C8: when the clear step of an upload with clear_existing=true is over, none
\* of the n regular files the bucket held is left and a listing of the bucket
\* has no entry, the count is n, and nothing else is changed, neither in a
\* subdirectory nor in another bucket; the upload reports n as files_deleted.
C8_ClearExisting ==
    /\ \A p \in Procs :
        (pc[p] = "u_open" /\ req[p].clear_existing) =>
            LET olds == RegularFiles(req[p].before, timestamp_dir(p)) IN
            /\ RegularFiles(fs, timestamp_dir(p)) = {}
            /\ loc[p].files_deleted = Cardinality(olds)
            /\ Changed(fs, req[p].before) \subseteq (olds \cup {timestamp_dir(p)})
    /\ \A i \in DOMAIN log :
        LET e == log[i] IN
        (e.req.op = "upload" /\ e.req.hasFile /\ e.req.filename # <<>>
            /\ e.req.clear_existing) =>
              /\ e.resp.outcome # "ClearFailed"
              /\ e.resp.outcome = "Uploaded" =>
                    e.resp.files_deleted =
                        Cardinality(RegularFiles(e.req.before,
                                                 BASE_FOLDER \o <<e.resp.directory>>))

\* An upload cleared a bucket of three regular files, one of them hidden, and
\* the file in the bucket's subdirectory is still there.
C8_Witness ==
    \E i \in DOMAIN log :
        LET e == log[i]
            bucket == BASE_FOLDER \o <<e.resp.directory>>
        IN
        /\ JustDone(i)
        /\ e.req.op = "upload" /\ e.req.clear_existing
        /\ e.resp.outcome = "Uploaded"
        /\ e.resp.files_deleted = 3
        /\ Cardinality(RegularFiles(fs, bucket)) = 1
        /\ \E q \in DOMAIN fs : Len(q) = Len(bucket) + 2 /\ Parent(Parent(q)) = bucket
                                  /\ fs[q].kind = "file"

\* Entries i and i+1 are two completed stores under the same sanitized name
\* in the same bucket with different content.
StoredTwice(i) ==
    /\ i + 1 \in DOMAIN log
    /\ log[i].resp.outcome = "Uploaded" /\ log[i + 1].resp.outcome = "Uploaded"
    /\ log[i].resp.directory = log[i + 1].resp.directory
    /\ log[i].resp.filename = log[i + 1].resp.filename
    /\ log[i].req.content # log[i + 1].req.content

\* C9: after two stores under the same sanitized name in the same bucket, one
\* after the other with different content, the bucket holds exactly one file
\* of that name, with the second content and a modification time not earlier
\* than the one the first store left.
C9_Overwrite ==
    \A i \in DOMAIN log :
        (StoredTwice(i) /\ JustDone(i + 1)) =>
            LET bucket == BASE_FOLDER \o <<log[i].resp.directory>>
                path == bucket \o <<log[i].resp.filename>>
                first == log[i + 1].req.before
            IN
            /\ Cardinality({q \in RegularFiles(fs, bucket) :
                               Name(q) = log[i].resp.filename}) = 1
            /\ IsFile(fs, path)
            /\ fs[path].content = log[i + 1].req.content
            /\ log[i + 1].resp.size_bytes = Len(log[i + 1].req.content)
            /\ IsFile(first, path)
            /\ first[path].content = log[i].req.content
            /\ fs[path].mtime >= first[path].mtime

\* A two-chunk file was replaced by a one-chunk file stored under a raw name
\* that differs from the first.
C9_Witness ==
    \E i \in DOMAIN log :
        /\ StoredTwice(i) /\ JustDone(i + 1)
        /\ Len(log[i].req.content) > Len(log[i + 1].req.content)
        /\ log[i].req.filename # log[i + 1].req.filename

\* C10 as claimed, in the weaker form that lets equal times pass: in every
\* FileListing the modification times reported never increase from one entry
\* to the next, also when stores into the bucket run meanwhile.
C10_ListingDescending ==
    \A i \in DOMAIN log :
        log[i].resp.outcome = "FileListing" =>
            \A a, b \in DOMAIN log[i].resp.files :
                a < b => log[i].resp.files[a].modified >= log[i].resp.files[b].modified

\* The upload of entry e passed the no-file and empty-filename checks.
PassedNameChecks(e) ==
    e.req.op = "upload" /\ e.req.hasFile /\ e.req.filename # <<>>

\* C11 as claimed: an upload that passes the no-file and empty-filename
\* checks and whose raw name sanitizes to the empty string succeeds and
\* reports a non-empty (placeholder) name, under which the file is stored in
\* the bucket.
C11_PlaceholderName ==
    \A i \in DOMAIN log :
        LET e == log[i] IN
        (PassedNameChecks(e) /\ secure_filename(e.req.filename) = <<>>) =>
            /\ e.resp.outcome = "Uploaded"
            /\ e.resp.filename # <<>>
            /\ JustDone(i) =>
                  IsFile(fs, BASE_FOLDER \o <<DateKey(e.req.date)>> \o <<e.resp.filename>>)

\* Entry i is a FileListing and entry i+1 the explicit fetch, with a valid
\* key, of the locator of the listing's k-th entry.
FollowsLocator(i, k) ==
    /\ i + 1 \in DOMAIN log
    /\ log[i].resp.outcome = "FileListing"
    /\ k \in DOMAIN log[i].resp.files
    /\ log[i + 1].req.op = "get_file"
    /\ Authorized(log[i + 1])
    /\ RouteMatches(log[i].resp.files[k].download_url)
    /\ log[i + 1].req.filepath = RouteFilepath(log[i].resp.files[k].download_url)

\* C12: the explicit fetch of the locator of a FileListing entry, made with a
\* valid key right after the listing, streams the file the entry describes:
\* the file of that name in the listed bucket, of the listed size, with the
\* content it had when it was listed.
C12_LocatorRoundTrip ==
    /\ \A i \in DOMAIN log :
        log[i].resp.outcome = "FileListing" =>
            \A k \in DOMAIN log[i].resp.files :
                RouteMatches(log[i].resp.files[k].download_url)
    /\ \A i \in DOMAIN log :
        \A k \in DOMAIN log[i].resp.files :
            FollowsLocator(i, k) =>
                LET entry == log[i].resp.files[k]
                    path == BASE_FOLDER \o <<log[i].resp.directory>> \o <<entry.filename>>
                    got == log[i + 1].resp
                IN
                /\ got.status = 200
                /\ got.outcome = "File"
                /\ got.path = path
                /\ got.filename = entry.filename
                /\ Len(got.body) = entry.size_bytes
                /\ IsFile(log[i].req.before, path)
                /\ got.body = log[i].req.before[path].content

\* The locator of the second entry of a two-file listing was fetched and the
\* file was served.
C12_Witness ==
    \E i \in DOMAIN log :
        /\ FollowsLocator(i, 2)
        /\ log[i + 1].resp.status = 200
        /\ log[i].resp.count = 2

\* The regular files of the bucket of entry e's request that were there when
\* the request arrived and are gone from the storage f.
Removed(e, f) ==
    {q \in RegularFiles(e.req.before, BASE_FOLDER \o <<DateKey(e.req.date)>>) :
        q \notin DOMAIN f}

\* C13 as claimed: an upload with clear_existing=true that fails reports, in
\* its failure response, the number of files it removed from the bucket.
C13_FailureReportsDeleted ==
    \A i \in DOMAIN log :
        LET e == log[i] IN
        (PassedNameChecks(e) /\ e.req.clear_existing /\ e.resp.status # 200
            /\ JustDone(i)) =>
              e.resp.files_deleted = Cardinality(Removed(e, fs))

\* C14 as claimed: a retrieval (Retrieve-today or explicit fetch) whose file
\* is deleted after it was enumerated or checked and before it is opened or
\* stat-ed ends in NotFound (404), never in the generic failure (500).  In the
\* model a retrieval has no other cause of failure than such a deletion.
C14_RaceIsNotFound ==
    \A i \in DOMAIN log :
        log[i].req.op \in {"download", "get_file"} => log[i].resp.status # 500

\* The bucket of the date the request r sampled when it arrived, and what is
\* directly inside it.
BucketOf(r) == BASE_FOLDER \o <<DateKey(r.date)>>

InBucket(r, q) == q = BucketOf(r) \/ (q # <<>> /\ Parent(q) = BucketOf(r))

\* C15: the bucket key is sampled once per request, also when the date
\* changes while the request is handled.  An upload creates, clears and
\* writes into the bucket of the date it sampled and reports that key; a
\* Retrieve-today enumerates the bucket of the date it sampled and names that
\* key in its response and in every locator.
C15_BucketKeySampledOnce ==
    /\ \A p \in Procs :
        (~Free(p) /\ req[p].op = "upload") =>
            /\ \A q \in Changed(fs, req[p].before) : InBucket(req[p], q)
            /\ pc[p] # "u_mkdir" => IsDir(fs, BucketOf(req[p]))
            /\ pc[p] \in {"u_isfile", "u_unlink"} =>
                  \A q \in loc[p].items \cup {loc[p].item} :
                      q # <<>> => Parent(q) = BucketOf(req[p])
            /\ pc[p] \in {"u_write", "u_stat"} =>
                  Parent(loc[p].file_path) = BucketOf(req[p])
    /\ \A p \in Procs :
        (~Free(p) /\ req[p].op = "download" /\ pc[p] \in {"d_send", "d_sort", "d_build"}) =>
            loc[p].all_files = VisibleFiles(fs, BucketOf(req[p]))
    /\ \A i \in DOMAIN log :
        LET e == log[i] IN
        /\ (e.req.op = "upload" /\ e.resp.outcome = "Uploaded") =>
              /\ e.resp.directory = DateKey(e.req.date)
              /\ JustDone(i) =>
                    /\ \A q \in Changed(fs, e.req.before) : InBucket(e.req, q)
                    /\ IsFile(fs, BucketOf(e.req) \o <<e.resp.filename>>)
        /\ e.req.op = "download" =>
              /\ e.resp.outcome \in {"NotFound", "Empty", "FileListing"} =>
                    e.resp.directory = DateKey(e.req.date)
              /\ e.resp.outcome = "SingleFile" => Parent(e.resp.path) = BucketOf(e.req)
              /\ e.resp.outcome = "FileListing" =>
                    \A k \in DOMAIN e.resp.files :
                        /\ e.resp.files[k].download_url =
                              ApiFile \o DateKey(e.req.date) \o <<"/">>
                                      \o e.resp.files[k].filename
                        /\ BucketOf(e.req) \o <<e.resp.files[k].filename>>
                              \in VisibleFiles(e.req.before, BucketOf(e.req))

\* The date has changed while an upload that cleared its bucket is writing
\* its file.
C15_Witness ==
    \E p \in Procs :
        /\ pc[p] = "u_write"
        /\ req[p].clear_existing
        /\ loc[p].files_deleted > 0
        /\ day > req[p].date

\* C16 as claimed: a run of the downloader that was answered a FileListing
\* and followed the locator of its first entry ends with a success result and
\* with that file saved under its listed filename.
C16_DownloaderFollowsFirst ==
    (client.pc = "end" /\ client.followed) =>
        /\ client.result = "success"
        /\ client.filename \in DOMAIN client.saved

====
